---- MODULE Spec2Model ----
(***************************************************************************)
(* Lithium-ion cell simulator of isaac_battery_model.c: the calibration    *)
(* tables, the bilinear interpolator, the parameter resolver, the voltage  *)
(* estimator and the electrical and thermal state updates.                 *)
(*                                                                         *)
(* Every C `float` is modelled as a binary floating-point number with a    *)
(* MantBits-bit significand and round-to-nearest-even after every          *)
(* operation, as IEEE-754 single precision does with 24 bits.  A result    *)
(* of magnitude 2^FLT_MAX_EXP or more overflows to an infinity; there are  *)
(* no subnormals (tiny results keep their precision) and zero carries no   *)
(* sign.  NaN and the two infinities are values: they arise from overflow, *)
(* from division by zero and from infinity minus infinity.                 *)
(***************************************************************************)
EXTENDS Integers, Sequences, FiniteSets

\* Significand width of the modelled float (IEEE single has 24).
MantBits == 12
\* Number of electrical updates applied to one battery by an arbitrary caller.
MaxSteps == 2
\* Number of timesteps of a sustained discharge.
MaxRun == 16

(***************************************************************************)
(* Floating-point values: <<m, e>> stands for m * 2^e, normalised so that  *)
(* 2^(MantBits-1) <= |m| < 2^MantBits; zero is <<0, 0>>.                   *)
(***************************************************************************)
NaN == <<0, 100000>>
PInf == <<1, 100000>>
NInf == <<-1, 100000>>
Zero == <<0, 0>>

IsSpecial(x) == x[2] = NaN[2]
IsNaN(x) == x = NaN
IsFinite(x) == ~IsSpecial(x)

Abs(n) == IF n < 0 THEN -n ELSE n
Sgn(n) == IF n < 0 THEN -1 ELSE IF n > 0 THEN 1 ELSE 0
Max(a, b) == IF a >= b THEN a ELSE b

\* The number of binary digits of n, 0 <= n < 2^31.
BitLenSmall == [n \in 0 .. 4095 |-> IF n = 0 THEN 0 ELSE CHOOSE k \in 1 .. 12 : n < 2 ^ k]

RECURSIVE BitLen(_)
BitLen(n) == IF n < 4096 THEN BitLenSmall[n] ELSE 12 + BitLen(n \div 4096)

\* Floats are below 2^FLT_MAX_EXP in magnitude (float.h: 128 for a float).
FLT_MAX_EXP == 2 ^ 7

\* x, or the infinity of its sign when x is out of the range of a float.
Overflow(x) ==
  IF BitLen(Abs(x[1])) + x[2] > FLT_MAX_EXP
  THEN (IF x[1] > 0 THEN PInf ELSE NInf)
  ELSE x

\* The float nearest to m * 2^e (ties to even).
RoundHalfEven(q, r, half) == IF r > half \/ (r = half /\ q % 2 = 1) THEN q + 1 ELSE q

RoundCarry(s, q, e) ==
  Overflow(IF q = 2 ^ MantBits THEN <<s * 2 ^ (MantBits - 1), e + 1>> ELSE <<s * q, e>>)

RoundShift(m, e, sh) ==
  IF sh <= 0 THEN Overflow(<<m * 2 ^ (-sh), e + sh>>)
  ELSE RoundCarry(Sgn(m),
                  RoundHalfEven(Abs(m) \div 2 ^ sh, Abs(m) % 2 ^ sh, 2 ^ (sh - 1)),
                  e + sh)

Round(m, e) == IF m = 0 THEN Zero ELSE RoundShift(m, e, BitLen(Abs(m)) - MantBits)

\* The float nearest to s * num / den * 2^e, for a quotient of at least
\* MantBits + 2 digits: the last digit kept says whether a remainder is left.
DivRound(s, num, den, e) ==
  Round(s * (2 * (num \div den) + (IF num % den = 0 THEN 0 ELSE 1)), e - 1)

fneg(x) == IF IsNaN(x) THEN NaN ELSE <<-x[1], x[2]>>

\* hi + lo for finite nonzero floats, hi with the larger exponent.
AddAligned(hi, lo) ==
  IF hi[2] - lo[2] > MantBits + 1 THEN hi
  ELSE Round(hi[1] * 2 ^ (hi[2] - lo[2]) + lo[1], lo[2])

fadd(x, y) ==
  IF IsNaN(x) \/ IsNaN(y) THEN NaN
  ELSE IF IsSpecial(x) /\ IsSpecial(y) THEN (IF x = y THEN x ELSE NaN)
  ELSE IF IsSpecial(x) THEN x
  ELSE IF IsSpecial(y) THEN y
  ELSE IF x[1] = 0 THEN y
  ELSE IF y[1] = 0 THEN x
  ELSE AddAligned(IF x[2] >= y[2] THEN x ELSE y, IF x[2] >= y[2] THEN y ELSE x)

fsub(x, y) == fadd(x, fneg(y))

fmul(x, y) ==
  IF IsNaN(x) \/ IsNaN(y) THEN NaN
  ELSE IF IsSpecial(x) \/ IsSpecial(y)
       THEN (IF x[1] = 0 \/ y[1] = 0 THEN NaN
             ELSE IF Sgn(x[1]) = Sgn(y[1]) THEN PInf ELSE NInf)
  ELSE Round(x[1] * y[1], x[2] + y[2])

fdiv(x, y) ==
  IF IsNaN(x) \/ IsNaN(y) THEN NaN
  ELSE IF IsSpecial(x)
       THEN (IF IsSpecial(y) THEN NaN
             ELSE IF Sgn(x[1]) * (IF y[1] < 0 THEN -1 ELSE 1) > 0 THEN PInf ELSE NInf)
  ELSE IF IsSpecial(y) THEN Zero
  ELSE IF y[1] = 0
       THEN (IF x[1] = 0 THEN NaN ELSE IF x[1] > 0 THEN PInf ELSE NInf)
  ELSE IF x[1] = 0 THEN Zero
  ELSE DivRound(Sgn(x[1]) * Sgn(y[1]), Abs(x[1]) * 2 ^ (MantBits + 2), Abs(y[1]),
                x[2] - y[2] - MantBits - 2)

\* x < y and x <= y as C compares floats (false when either is NaN).
flt(x, y) ==
  /\ ~IsNaN(x)
  /\ ~IsNaN(y)
  /\ x # y
  /\ fsub(x, y)[1] < 0

fle(x, y) == ~IsNaN(x) /\ ~IsNaN(y) /\ (x = y \/ flt(x, y))

\* (float)n for an int n.
IntToFloat(n) == Round(n, 0)

\* The float written as the decimal literal n / 10^k = n / 5^k * 2^-k.
DecScaled(n, k, s) == DivRound(Sgn(n), Abs(n) * 2 ^ s, 5 ^ k, -s - k)

Dec(n, k) ==
  IF n = 0 THEN Zero
  ELSE DecScaled(n, k, Max(0, MantBits + 2 + BitLen(5 ^ k) - BitLen(Abs(n))))

\* The floats next to x (x finite).
Succ(x) == IF x[1] = 0 THEN Round(1, -60) ELSE Round(2 * x[1] + 1, x[2] - 1)
Pred(x) == IF x[1] = 0 THEN Round(-1, -60) ELSE Round(2 * x[1] - 1, x[2] - 1)

(***************************************************************************)
(* (int)x.  The conversion truncates toward zero; it is undefined for NaN, *)
(* the infinities and values that do not fit an int, where builds return   *)
(* INT_MIN (x86), or saturate and return 0 for NaN (ARM).                  *)
(***************************************************************************)
INT_MAX == 2147483647
INT_MIN == -2147483647 - 1

FloatToInt(x) ==
  IF IsSpecial(x) \/ BitLen(Abs(x[1])) + x[2] > 31 THEN {INT_MIN, 0, INT_MAX}
  ELSE IF x[2] >= 0 THEN {x[1] * 2 ^ x[2]}
  ELSE IF -x[2] >= MantBits THEN {0}
  ELSE {Sgn(x[1]) * (Abs(x[1]) \div 2 ^ (-x[2]))}

(***************************************************************************)
(* Calibration tables                                                      *)
(***************************************************************************)
battery_model_table_SOCs == 11
battery_model_table_temps == 4

battery_model_temperatures == <<Dec(-200, 1), Dec(-100, 1), Dec(-50, 1), Dec(20, 1)>>

battery_model_Em ==
  <<
  <<Dec(35, 1), Dec(365, 2), Dec(37, 1), Dec(375, 2), Dec(378, 2), Dec(38, 1),
    Dec(385, 2), Dec(39, 1), Dec(395, 2), Dec(41, 1), Dec(42, 1)>>,
  <<Dec(35, 1), Dec(365, 2), Dec(37, 1), Dec(3746368, 6), Dec(3794009, 6), Dec(3824597, 6),
    Dec(3870755, 6), Dec(3921037, 6), Dec(3984153, 6), Dec(41, 1), Dec(42, 1)>>,
  <<Dec(35, 1), Dec(3717802, 6), Dec(3751656, 6), Dec(3779548, 6), Dec(3805342, 6), Dec(3837747, 6),
    Dec(3886275, 6), Dec(392452, 5), Dec(4019383, 6), Dec(4131402, 6), Dec(42, 1)>>,
  <<Dec(35, 1), Dec(3723299, 6), Dec(3754516, 6), Dec(3788628, 6), Dec(3812054, 6), Dec(3840599, 6),
    Dec(3888213, 6), Dec(3933897, 6), Dec(4024288, 6), Dec(4130746, 6), Dec(4182739, 6)>>
  >>

battery_model_R0 ==
  <<
  <<Dec(26, 2), Dec(26, 2), Dec(26, 2), Dec(13, 2), Dec(13, 2), Dec(13, 2),
    Dec(13, 2), Dec(13, 2), Dec(25, 2), Dec(2, 1), Dec(67, 2)>>,
  <<Dec(3, 1), Dec(50589, 6), Dec(144401, 6), Dec(85073, 6), Dec(91675, 6), Dec(85872, 6),
    Dec(8382, 5), Dec(84737, 6), Dec(75961, 6), Dec(15, 2), Dec(25, 2)>>,
  <<Dec(2, 1), Dec(29142, 6), Dec(29737, 6), Dec(31219, 6), Dec(31587, 6), Dec(30885, 6),
    Dec(31477, 6), Dec(30845, 6), Dec(30875, 6), Dec(25, 3), Dec(16, 3)>>,
  <<Dec(32564, 6), Dec(22225, 6), Dec(19854, 6), Dec(24638, 6), Dec(22878, 6), Dec(21342, 6),
    Dec(22003, 6), Dec(2195, 5), Dec(21421, 6), Dec(23454, 6), Dec(14168, 6)>>
  >>

battery_model_R1 ==
  <<
  <<Dec(2, 0), Dec(75, 2), Dec(21, 2), Dec(190953, 6), Dec(147748, 6), Dec(127334, 6),
    Dec(143009, 6), Dec(180778, 6), Dec(1, 1), Dec(261743, 6), Dec(85, 2)>>,
  <<Dec(3815, 6), Dec(7988, 6), Dec(20238, 6), Dec(15108, 6), Dec(1404, 5), Dec(14878, 6),
    Dec(14838, 6), Dec(14781, 6), Dec(15083, 6), Dec(15, 2), Dec(3, 1)>>,
  <<Dec(11421, 6), Dec(3253, 6), Dec(12514, 6), Dec(939, 5), Dec(10378, 6), Dec(9284, 6),
    Dec(8821, 6), Dec(8391, 6), Dec(10644, 6), Dec(8414, 6), Dec(7233, 6)>>,
  <<Dec(25991, 6), Dec(3294, 6), Dec(13872, 6), Dec(13772, 6), Dec(13957, 6), Dec(11306, 6),
    Dec(1088, 5), Dec(1135, 5), Dec(15937, 6), Dec(12274, 6), Dec(7585, 6)>>
  >>

battery_model_C1 ==
  <<
  <<Dec(400, 0), Dec(500, 0), Dec(600, 0), Dec(846, 0), Dec(846, 0), Dec(846, 0),
    Dec(846, 0), Dec(846, 0), Dec(600, 0), Dec(846, 0), Dec(596, 0)>>,
  <<Dec(1434898, 5), Dec(2871938, 2), Dec(1818858, 3), Dec(5832355, 3), Dec(8962667, 3), Dec(8772705, 3),
    Dec(8750688, 3), Dec(8565881, 3), Dec(7004807, 3), Dec(111884, 1), Dec(7370326, 3)>>,
  <<Dec(881527, 6), Dec(3341497, 2), Dec(2179029, 3), Dec(1128918, 2), Dec(7234158, 3), Dec(6226428, 3),
    Dec(575018, 2), Dec(9030291, 3), Dec(3869932, 3), Dec(11851, 0), Dec(712203, 2)>>,
  <<Dec(262732, 6), Dec(5075986, 2), Dec(302206, 2), Dec(1572072, 2), Dec(8308124, 3), Dec(7180572, 3),
    Dec(6619685, 3), Dec(1315094, 2), Dec(4201662, 3), Dec(1510312, 2), Dec(6852036, 3)>>
  >>

TableNames == {"Em", "R0", "R1", "C1"}

Table(name) ==
  CASE name = "Em" -> battery_model_Em
    [] name = "R0" -> battery_model_R0
    [] name = "R1" -> battery_model_R1
    [] name = "C1" -> battery_model_C1

\* What a read outside a table may return: the bytes that follow the table
\* in memory, read as a float.  In the builds of this file (gcc, -O0 and
\* -O2) these are alignment padding (zero), entries of the table or of the
\* constants laid out next (small numbers), and the characters of main's
\* format string (0x66322e25, about 2.1e23).
Garbage == {Zero, Dec(26, 2), Round(11677221, 54)}

\* The memory images the model follows: what lies behind each table.  The
\* last one is the -O0 build at the low SOC columns: padding behind Em, R0
\* and R1, the format string behind C1.
GarbageImages ==
  {[name \in TableNames |-> <<x, x>>] : x \in Garbage}
    \cup {[name \in TableNames |->
              IF name = "C1" THEN <<Round(11677221, 54), Round(11677221, 54)>>
              ELSE <<Zero, Zero>>]}

InTable(T, S) ==
  /\ T \in 0 .. battery_model_table_temps - 1
  /\ S \in 0 .. battery_model_table_SOCs - 1

\* table->values[T][S]; g is what the read returns when it leaves the table.
Values(table, T, S, g) == IF InTable(T, S) THEN table[T + 1][S + 1] ELSE g

(***************************************************************************)
(* battery_model_interpolate                                               *)
(***************************************************************************)
SOC_next_of(SOC_index) ==
  IF SOC_index + 1 >= battery_model_table_SOCs
  THEN battery_model_table_SOCs - 1
  ELSE SOC_index + 1

T_next_of(T_index) ==
  IF T_index + 1 >= battery_model_table_temps
  THEN battery_model_table_temps
  ELSE T_index + 1

\* The <<row, column>> pairs of table.values the interpolator reads.
interpolate_reads(T_index, SOC_index) ==
  {<<T_index, SOC_index>>, <<T_index, SOC_next_of(SOC_index)>>,
   <<T_next_of(T_index), SOC_index>>, <<T_next_of(T_index), SOC_next_of(SOC_index)>>}

\* battery_model_interpolate weighting the SOC axis from SOC_next instead of
\* SOC_index.
battery_model_interpolate_from_next(table, T_number, T_index, SOC_number, SOC_index, g) ==
  LET SOC_next == SOC_next_of(SOC_index)
      T_next == T_next_of(T_index)
      II == Values(table, T_index, SOC_index, g[1])
      IN0 == Values(table, T_index, SOC_next, g[2])
      TI == Values(table, T_next, SOC_index, g[1])
      TN == Values(table, T_next, SOC_next, g[2])
      sf == fsub(SOC_number, IntToFloat(SOC_next))
      I == fadd(II, fmul(fsub(IN0, II), sf))
      T == fadd(TI, fmul(fsub(TN, TI), sf))
  IN fadd(I, fmul(fsub(T, I), fsub(T_number, IntToFloat(T_index))))

\* g = <<gI, gN>>: the outcomes of the reads at SOC_index and SOC_next that leave the table.
battery_model_interpolate(table, T_number, T_index, SOC_number, SOC_index, g) ==
  LET SOC_next == SOC_next_of(SOC_index)
      T_next == T_next_of(T_index)
      II == Values(table, T_index, SOC_index, g[1])
      IN0 == Values(table, T_index, SOC_next, g[2])
      TI == Values(table, T_next, SOC_index, g[1])
      TN == Values(table, T_next, SOC_next, g[2])
      sf == fsub(SOC_number, IntToFloat(SOC_index))
      I == fadd(II, fmul(fsub(IN0, II), sf))
      T == fadd(TI, fmul(fsub(TN, TI), sf))
  IN fadd(I, fmul(fsub(T, I), fsub(T_number, IntToFloat(T_index))))

(***************************************************************************)
(* battery_model_get_parameters                                            *)
(***************************************************************************)
\* SOC_number scaled by the number of buckets instead of the last index.
SOC_number_raw_by_count(battery) == fmul(battery.SOC, IntToFloat(battery_model_table_SOCs))

\* SOC_number before clamping.
SOC_number_raw(battery) == fmul(battery.SOC, IntToFloat(battery_model_table_SOCs - 1))

RECURSIVE ScanT(_, _)
ScanT(lookupT, T_index) ==
  IF /\ T_index + 1 < battery_model_table_temps
     /\ fle(battery_model_temperatures[T_index + 2], lookupT)
  THEN ScanT(lookupT, T_index + 1)
  ELSE T_index

\* The table coordinates of a battery state; cast is the outcome of (int)SOC_number.
lookup(battery, cast) ==
  LET raw == SOC_number_raw(battery)
      lowS == IF cast < 0 THEN [n |-> Zero, i |-> 0] ELSE [n |-> raw, i |-> cast]
      S == IF lowS.i >= battery_model_table_SOCs
           THEN [n |-> IntToFloat(battery_model_table_SOCs - 1),
                 i |-> battery_model_table_SOCs - 1]
           ELSE lowS
      lookupT == battery.cellT
      T_index == ScanT(lookupT, 0)
      T_number ==
        IF T_index + 1 < battery_model_table_temps
        THEN LET last == battery_model_temperatures[T_index + 1]
                 next == battery_model_temperatures[T_index + 2]
             IN fadd(IntToFloat(T_index), fdiv(fsub(lookupT, last), fsub(next, last)))
        ELSE Zero
  IN [SOC_number |-> S.n, SOC_index |-> S.i, T_number |-> T_number, T_index |-> T_index]

\* g[name] = the outcomes of the reads of table `name` that leave it.
battery_model_get_parameters(battery, cast, g) ==
  LET L == lookup(battery, cast)
  IN [name \in TableNames |->
        battery_model_interpolate(Table(name), L.T_number, L.T_index,
                                  L.SOC_number, L.SOC_index, g[name])]

NoGarbage == [name \in TableNames |-> <<Zero, Zero>>]

\* A resolution reads outside the tables when T_next leaves them, whatever
\* the SOC column.
Leaves(battery) == ~InTable(T_next_of(ScanT(battery.cellT, 0)), 0)

\* The outcomes of the out-of-table reads one resolution makes; m is what
\* earlier reads found there (no operation writes behind the tables).
OutOfTable(battery, m) ==
  IF ~Leaves(battery) THEN {NoGarbage}
  ELSE IF m # {} THEN m
  ELSE GarbageImages

(***************************************************************************)
(* The battery state and its operations                                    *)
(***************************************************************************)
battery_model_init(capacityAh, SOC, tempC) ==
  [capacityAs |-> fmul(capacityAh, Dec(3600, 0)),
   SOC |-> SOC,
   cellT |-> tempC,
   C1Q |-> Zero]

\* battery_model_voltage with the series drop added instead of subtracted.
voltage_body_R0V_added(battery, amps, param) ==
  LET R0V == fmul(param["R0"], amps)
      R1V == fdiv(battery.C1Q, param["C1"])
  IN [ret |-> fadd(fsub(param["Em"], R1V), R0V), param |-> param]

\* The body of battery_model_voltage, param being what it resolved: the
\* returned voltage, and param.
voltage_body(battery, amps, param) ==
  LET R0V == fmul(param["R0"], amps)
      R1V == fdiv(battery.C1Q, param["C1"])
  IN [ret |-> fsub(fsub(param["Em"], R1V), R0V), param |-> param]

battery_model_voltage(battery, amps, cast, g) ==
  voltage_body(battery, amps, battery_model_get_parameters(battery, cast, g))

\* battery_model_electrical with the current through R1 flowing into C1
\* (C1I = amps + R1I).
electrical_body_C1I_added(battery, amps, dt, param) ==
  LET R0I == amps
      R0V == fmul(param["R0"], R0I)
      C1V == fdiv(battery.C1Q, param["C1"])
      R1V == C1V
      R1I == fdiv(R1V, param["R1"])
      C1I == fadd(amps, R1I)
      SOC_amps == amps
      power == fadd(fmul(R0V, R0I), fmul(R1V, R1I))
      energy == fmul(power, dt)
  IN [battery |->
        [battery EXCEPT
           !.C1Q = fadd(battery.C1Q, fmul(C1I, dt)),
           !.SOC = fsub(battery.SOC, fdiv(fmul(SOC_amps, dt), battery.capacityAs))],
      ret |-> energy,
      param |-> param]

\* battery_model_electrical with the power of R1 subtracted from that of R0.
electrical_body_power_subtracted(battery, amps, dt, param) ==
  LET R0I == amps
      R0V == fmul(param["R0"], R0I)
      C1V == fdiv(battery.C1Q, param["C1"])
      R1V == C1V
      R1I == fdiv(R1V, param["R1"])
      C1I == fsub(amps, R1I)
      SOC_amps == amps
      power == fsub(fmul(R0V, R0I), fmul(R1V, R1I))
      energy == fmul(power, dt)
  IN [battery |->
        [battery EXCEPT
           !.C1Q = fadd(battery.C1Q, fmul(C1I, dt)),
           !.SOC = fsub(battery.SOC, fdiv(fmul(SOC_amps, dt), battery.capacityAs))],
      ret |-> energy,
      param |-> param]

\* The body of battery_model_electrical, param being what it resolved: the
\* updated battery, the returned heat energy, and param.
electrical_body(battery, amps, dt, param) ==
  LET R0I == amps
      R0V == fmul(param["R0"], R0I)
      C1V == fdiv(battery.C1Q, param["C1"])
      R1V == C1V
      R1I == fdiv(R1V, param["R1"])
      C1I == fsub(amps, R1I)
      SOC_amps == amps
      power == fadd(fmul(R0V, R0I), fmul(R1V, R1I))
      energy == fmul(power, dt)
  IN [battery |->
        [battery EXCEPT
           !.C1Q = fadd(battery.C1Q, fmul(C1I, dt)),
           !.SOC = fsub(battery.SOC, fdiv(fmul(SOC_amps, dt), battery.capacityAs))],
      ret |-> energy,
      param |-> param]

battery_model_electrical(battery, amps, dt, cast, g) ==
  electrical_body(battery, amps, dt, battery_model_get_parameters(battery, cast, g))

battery_model_thermal(battery, heating_joules, specific_heat, mass, ambientT, Rvalue, area, dt) ==
  LET cool_joules == fmul(fdiv(fmul(fsub(battery.cellT, ambientT), area), Rvalue), dt)
      netT == fdiv(fsub(heating_joules, cool_joules), fmul(specific_heat, mass))
  IN [battery EXCEPT !.cellT = fadd(battery.cellT, netT)]


(***************************************************************************)
(* The state machine: one battery, driven by a caller                      *)
(***************************************************************************)
VARIABLES
  battery,  \* struct battery_model: capacityAs, SOC, C1Q, cellT
  op,       \* the last operation: "init", "get_parameters", "voltage",
            \* "electrical", "thermal", "interpolate"
  amps,     \* its draw current
  dt,       \* its timestep
  pre,      \* the battery as the last operation found it
  look,     \* the table coordinates it resolved
  param,    \* struct battery_model_parameters it resolved
  reads,    \* the <<row, column>> pairs of table.values it read
  ret,      \* its return value (volts or joules)
  steps,    \* electrical updates applied so far
  mem,      \* what the reads behind the tables have found: {} until the first
  thermal,  \* whether the caller's loop applies the thermal update
  icall,    \* a direct call of battery_model_interpolate: its arguments
  iret      \* and its return value

vars == <<battery, op, amps, dt, pre, look, param, reads, ret, steps, mem, thermal,
          icall, iret>>

NoLook == [SOC_number |-> Zero, SOC_index |-> 0, T_number |-> Zero, T_index |-> 0]
NoParam == [name \in TableNames |-> Zero]
NoCall == [table |-> "Em", T_number |-> Zero, T_index |-> 0,
           SOC_number |-> Zero, SOC_index |-> 0]
NoBattery == battery_model_init(Zero, Zero, Zero)

\* The caller's inputs.
CapacityAhInputs == {Zero, Dec(18, 1)}
SocInputs == {Zero, Dec(5, 1), Dec(1, 0)}
TempInputs == {Dec(-20, 0), Dec(-5, 0), Dec(2, 0)}
AmpsInputs == {Zero, Dec(18, 1)}
VoltageAmpsInputs == {Dec(18, 1)}
DtInputs == {Dec(12, 0), Dec(360, 0)}
AmbientInputs == {Dec(-20, 0)}
specific_heat == Dec(9, 1)
mass == Dec(150, 0)
Rvalue == Dec(1, 1)
area == Dec(1, 2)

Resolved(b, cast, g, p) ==
  LET L == lookup(b, cast)
  IN /\ pre' = b
     /\ look' = L
     /\ param' = p
     /\ reads' = interpolate_reads(L.T_index, L.SOC_index)
     /\ mem' = IF Leaves(b) THEN {g} ELSE mem

Idle ==
  /\ op = "init"
  /\ amps = Zero
  /\ pre = battery
  /\ look = NoLook
  /\ param = NoParam
  /\ reads = {}
  /\ ret = Zero
  /\ steps = 0
  /\ mem = {}
  /\ iret = Zero

Init ==
  /\ \E capacityAh \in CapacityAhInputs, SOC \in SocInputs, tempC \in TempInputs :
       battery = battery_model_init(capacityAh, SOC, tempC)
  /\ dt = Zero
  /\ thermal = TRUE
  /\ icall = NoCall
  /\ Idle

\* A voltage query leaves the battery as it found it: what may follow it is
\* what may follow the state it was asked in, and is explored from there.
Voltage ==
  /\ op \in {"init", "electrical", "thermal"}
  /\ \E a \in VoltageAmpsInputs, cast \in FloatToInt(SOC_number_raw(battery)) :
       \E g \in OutOfTable(battery, mem) :
         LET r == battery_model_voltage(battery, a, cast, g)
         IN /\ op' = "voltage"
            /\ amps' = a
            /\ dt' = Zero
            /\ Resolved(battery, cast, g, r.param)
            /\ ret' = r.ret
            /\ UNCHANGED <<battery, steps, thermal, icall, iret>>

\* One electrical update with a draw current of A and a timestep of D.
ElectricalStep(A, D) ==
  \E a \in A, d \in D, cast \in FloatToInt(SOC_number_raw(battery)) :
    \E g \in OutOfTable(battery, mem) :
      LET r == battery_model_electrical(battery, a, d, cast, g)
      IN /\ op' = "electrical"
         /\ amps' = a
         /\ dt' = d
         /\ Resolved(battery, cast, g, r.param)
         /\ battery' = r.battery
         /\ ret' = r.ret
         /\ steps' = steps + 1
         /\ UNCHANGED <<thermal, icall, iret>>

Electrical ==
  /\ op \in {"init", "electrical", "thermal"}
  /\ steps < MaxSteps
  /\ ElectricalStep(AmpsInputs, DtInputs)

\* The caller feeds the heat the electrical update returned into the thermal
\* update of the same timestep.
Thermal ==
  /\ op = "electrical"
  /\ \E ambientT \in AmbientInputs :
       battery' = battery_model_thermal(battery, ret, specific_heat, mass,
                                        ambientT, Rvalue, area, dt)
  /\ op' = "thermal"
  /\ pre' = battery
  /\ look' = NoLook
  /\ param' = NoParam
  /\ reads' = {}
  /\ UNCHANGED <<amps, dt, ret, steps, mem, thermal, icall, iret>>

Next == Voltage \/ Electrical \/ Thermal

Spec == Init /\ [][Next]_vars

(***************************************************************************)
(* A sustained discharge: the loop of main, electrical then thermal update *)
(* at a fixed timestep and a fixed draw, from several starting states; and *)
(* the same loop without the thermal update (the cell held at its          *)
(* temperature).                                                           *)
(***************************************************************************)
RunSocInputs == {Zero, Dec(5, 1), Dec(1, 0)}
RunTempInputs == {Dec(-20, 0), Dec(-10, 0), Dec(-5, 0)}
RunAmps == Dec(18, 1)

InitRun ==
  /\ \E SOC \in RunSocInputs, tempC \in RunTempInputs :
       battery = battery_model_init(Dec(18, 1), SOC, tempC)
  /\ dt \in DtInputs
  /\ thermal \in BOOLEAN
  /\ icall = NoCall
  /\ Idle

RunElectrical ==
  /\ op \in {"init", IF thermal THEN "thermal" ELSE "electrical"}
  /\ steps < MaxRun
  /\ ElectricalStep({RunAmps}, {dt})

RunThermal == thermal /\ Thermal

NextRun == RunElectrical \/ RunThermal

SpecRun == InitRun /\ [][NextRun]_vars

(***************************************************************************)
(* The parameter resolver on its own, over a dense set of battery states.  *)
(***************************************************************************)
\* SOC: the grid k/64 around [0, 1], the bucket values and their neighbours,
\* and values far outside.
SocDense ==
  {Round(k, -6) : k \in -8 .. 72}
    \cup {Dec(j, 1) : j \in 0 .. 10}
    \cup {Pred(Dec(j, 1)) : j \in 0 .. 10}
    \cup {Succ(Dec(j, 1)) : j \in 0 .. 10}
    \cup {Dec(-5, 2), Dec(-1, 0), Dec(105, 2), Dec(2, 0), Round(3, 30), Round(-3, 30)}

TempDense ==
  {Dec(-25, 0), Pred(Dec(-20, 0)), Dec(-20, 0), Dec(-15, 0), Dec(-10, 0), Dec(-75, 1),
   Dec(-5, 0), Zero, Pred(Dec(2, 0)), Dec(2, 0), Dec(10, 0)}

InitResolve ==
  /\ \E SOC \in SocDense, tempC \in TempDense :
       battery = battery_model_init(Dec(18, 1), SOC, tempC)
  /\ dt = Zero
  /\ thermal = FALSE
  /\ icall = NoCall
  /\ Idle

GetParameters ==
  /\ op = "init"
  /\ \E cast \in FloatToInt(SOC_number_raw(battery)) :
       \E g \in OutOfTable(battery, mem) :
         /\ op' = "get_parameters"
         /\ Resolved(battery, cast, g, battery_model_get_parameters(battery, cast, g))
         /\ UNCHANGED <<battery, amps, dt, ret, steps, thermal, icall, iret>>

NextResolve == GetParameters

SpecResolve == InitResolve /\ [][NextResolve]_vars

(***************************************************************************)
(* The interpolator on its own: every table and bucket, at the bucket and  *)
(* half a bucket further along either axis.                                *)
(***************************************************************************)
Fractions == {Zero, Dec(5, 1)}

InitInterp ==
  /\ battery = NoBattery
  /\ dt = Zero
  /\ thermal = FALSE
  /\ Idle
  /\ \E table \in TableNames, T_index \in 0 .. battery_model_table_temps - 1,
        SOC_index \in 0 .. battery_model_table_SOCs - 1, fT \in Fractions, fS \in Fractions :
       icall = [table |-> table,
                T_number |-> fadd(IntToFloat(T_index), fT), T_index |-> T_index,
                SOC_number |-> fadd(IntToFloat(SOC_index), fS), SOC_index |-> SOC_index]

Interpolate ==
  /\ op = "init"
  /\ op' = "interpolate"
  /\ \E g \in IF InTable(T_next_of(icall.T_index), 0) THEN {<<Zero, Zero>>}
               ELSE Garbage \X Garbage :
       iret' = battery_model_interpolate(Table(icall.table), icall.T_number, icall.T_index,
                                         icall.SOC_number, icall.SOC_index, g)
  /\ reads' = interpolate_reads(icall.T_index, icall.SOC_index)
  /\ UNCHANGED <<battery, amps, dt, pre, look, param, ret, steps, mem, thermal, icall>>

NextInterp == Interpolate

SpecInterp == InitInterp /\ [][NextInterp]_vars

(***************************************************************************)
(* Properties                                                              *)
(***************************************************************************)
\* |x|
FAbs(x) == IF x[1] < 0 THEN fneg(x) ELSE x

\* The last operation was a resolution of the parameters of `pre`.
Resolving == op = "get_parameters"

\* What that resolution found behind the tables, and what (int)SOC_number gave.
MemOf == IF mem = {} THEN NoGarbage ELSE CHOOSE g \in mem : TRUE
CastOf == CHOOSE c \in FloatToInt(SOC_number_raw(pre)) : lookup(pre, c) = look

\* The fractional offsets handed to the interpolator.
T_offset == fsub(look.T_number, IntToFloat(look.T_index))
SOC_offset == fsub(look.SOC_number, IntToFloat(look.SOC_index))

\* The value interpolated along the SOC axis in row T of the table.
AlongSOC(table, T) ==
  LET II == table[T + 1][look.SOC_index + 1]
      IN0 == table[T + 1][SOC_next_of(look.SOC_index) + 1]
  IN fadd(II, fmul(fsub(IN0, II), SOC_offset))

LastT == battery_model_table_temps - 1
LastSOC == battery_model_table_SOCs - 1

\* C1: at or above the highest temperature bucket (+2 degC) the resolver
\* uses the last bucket as floor index with a fractional offset of 0, and
\* each parameter is the value interpolated along the SOC axis in the last
\* row only.
C1_TopBucketClamped ==
  Resolving /\ fle(battery_model_temperatures[LastT + 1], pre.cellT) =>
    /\ look.T_index = LastT
    /\ T_offset = Zero
    /\ \A name \in TableNames : param[name] = AlongSOC(Table(name), LastT)

\* C2: below the lowest temperature bucket (-20 degC) the resolver uses
\* floor index 0 with a fractional offset of 0, and each parameter is what
\* it is at exactly -20 degC and the same SOC.
C2_BelowLowestClamped ==
  Resolving /\ flt(pre.cellT, battery_model_temperatures[1]) =>
    /\ look.T_index = 0
    /\ T_offset = Zero
    /\ param = battery_model_get_parameters(
                 [pre EXCEPT !.cellT = battery_model_temperatures[1]], CastOf, MemOf)

\* C3: for every soc the SOC coordinate and floor index handed to the
\* interpolator lie in [0, socBuckets-1]; the parameters for soc < 0 are
\* those at soc = 0 and the parameters for soc > 1 are those at soc = 1.
C3_SocClamped ==
  Resolving =>
    /\ look.SOC_index \in 0 .. LastSOC
    /\ fle(Zero, look.SOC_number)
    /\ fle(look.SOC_number, IntToFloat(LastSOC))
    /\ flt(pre.SOC, Zero) =>
         param = battery_model_get_parameters([pre EXCEPT !.SOC = Zero], 0, MemOf)
    /\ flt(Dec(1, 0), pre.SOC) =>
         param = battery_model_get_parameters([pre EXCEPT !.SOC = Dec(1, 0)], LastSOC, MemOf)

\* C8: for soc in [0, 1) the SOC floor index is in [0, socBuckets-2] and the
\* fractional part SOC_number - SOC_index is in [0, 1); at soc = 1.0 the
\* floor index is socBuckets-1 and the fractional part is 0.
C8_SocLookupBounds ==
  Resolving =>
    /\ fle(Zero, pre.SOC) /\ flt(pre.SOC, Dec(1, 0)) =>
         /\ look.SOC_index \in 0 .. LastSOC - 1
         /\ fle(Zero, SOC_offset)
         /\ flt(SOC_offset, Dec(1, 0))
    /\ pre.SOC = Dec(1, 0) =>
         /\ look.SOC_index = LastSOC
         /\ SOC_offset = Zero

\* The largest soc below 1.0 resolved: the last interior bucket, almost at its end.
C8_Witness ==
  /\ Resolving
  /\ pre.SOC = Pred(Dec(1, 0))
  /\ look.SOC_index = LastSOC - 1
  /\ flt(Dec(9, 1), SOC_offset)

\* C10: every read of table.values made for a resolution has its row in
\* 0..temperatureBuckets-1 and its column in 0..socBuckets-1.
C10_TableReadsInRange ==
  Resolving => \A r \in reads : InTable(r[1], r[2])

\* The last operation was a direct call of the interpolator at an exact bucket.
AtBucket ==
  /\ op = "interpolate"
  /\ icall.T_number = IntToFloat(icall.T_index)
  /\ icall.SOC_number = IntToFloat(icall.SOC_index)

ZeroDraw ==
  /\ op = "electrical"
  /\ amps = Zero
  /\ flt(Zero, dt)
  /\ flt(Zero, pre.capacityAs)

\* The update left SOC as it was and did not increase the magnitude of C1Q.
Relaxed ==
  /\ battery.SOC = pre.SOC
  /\ ~flt(FAbs(pre.C1Q), FAbs(battery.C1Q))

PositiveDraw ==
  /\ op = "electrical"
  /\ flt(Zero, param["R0"])
  /\ flt(Zero, param["R1"])
  /\ flt(Zero, amps)
  /\ flt(Zero, dt)

\* C6 as stated: with positive resolved R0 and R1, a positive draw and a
\* positive dt, the electrical update returns a heat energy >= 0, at every
\* step of a sequence of electrical and thermal updates.
C6_HeatNonNegative == PositiveDraw => fle(Zero, ret)

\* C6 as amended: the same, for a battery whose C1Q is finite and whose
\* resolved C1 is a nonzero number.
C6_HeatNonNegativeFiniteCharge ==
  /\ PositiveDraw
  /\ IsFinite(pre.C1Q)
  /\ IsFinite(param["C1"])
  /\ param["C1"] # Zero
  => fle(Zero, ret)

\* A later step of a discharge, on a charged capacitor, returning heat.
C6_Witness ==
  /\ PositiveDraw
  /\ steps >= 2
  /\ IsFinite(pre.C1Q)
  /\ pre.C1Q # Zero
  /\ flt(Zero, ret)
  /\ IsFinite(ret)

\* The last operation was a voltage query on a battery no update has touched.
Fresh ==
  /\ op = "voltage"
  /\ steps = 0
  /\ pre.C1Q = Zero

\* 1.8 Ah, SOC 1.0, -20 degC, asked for 1.8 A.
Scenario ==
  /\ Fresh
  /\ pre = battery_model_init(Dec(18, 1), Dec(1, 0), Dec(-20, 0))
  /\ amps = Dec(18, 1)

\* C7: on a freshly constructed battery the voltage is the resolved Em minus
\* R0 times the draw, with no relaxation term; for 1.8 Ah, SOC 1.0, -20 degC
\* and 1.8 A the resolver is at SOC bucket 10 and temperature bucket 0 and
\* yields the table entries Em = 4.2 and R0 = 0.67, and the voltage is
\* 4.2 - 0.67 * 1.8 = 2.994 V (to 0.005 V).
C7_FreshVoltage ==
  /\ Fresh => ret = fsub(param["Em"], fmul(param["R0"], amps))
  /\ Scenario =>
       /\ look.SOC_index = 10
       /\ look.T_index = 0
       /\ param["Em"] = Dec(42, 1)
       /\ param["R0"] = Dec(67, 2)
       /\ ret = fsub(Dec(42, 1), fmul(Dec(67, 2), Dec(18, 1)))
       /\ fle(FAbs(fsub(ret, Dec(2994, 3))), Dec(5, 3))

\* The scenario's voltage query has been answered.
C7_Witness == Scenario /\ flt(Dec(2, 0), ret) /\ flt(ret, Dec(4, 0))

\* C9: capacity > 0 in every battery state reachable through
\* battery_model_init and the operations (a capacity <= 0 is rejected).
C9_CapacityPositive == flt(Zero, battery.capacityAs)
====
